---- MODULE Spec2Model ----
(***************************************************************************)
(* Model of klippy/extras/spi_temperature.py: the SPI thermocouple / RTD   *)
(* sensor sessions (SensorBase and the MAX31855, MAX31856, MAX6675 and     *)
(* MAX31865 chip classes).                                                 *)
(*                                                                         *)
(* Numbers.  Python floats are modelled by exact integers: a temperature   *)
(* is an integer count of 1/TempDen degrees Celsius, so that the chips'    *)
(* multipliers (0.25 and 0.0078125, both powers of two) and the 0.5 added  *)
(* by calc_adc are exact, as they are in IEEE doubles at these magnitudes. *)
(* Python integers are unbounded; the model keeps every value below 2^31.  *)
(***************************************************************************)
EXTENDS Integers, Sequences, FiniteSets, TLC

(***************************************************************************)
(* Program constants                                                       *)
(***************************************************************************)
\* REPORT_TIME = 0.300 seconds, in milliseconds
REPORT_TIME_MS == 300

\* MAX31856_SCALE = 5, MAX31856_MULT = 0.0078125 = 1 / 128
MAX31856_SCALE == 5
MAX31856_MULT_DEN == 128
\* MAX31855_SCALE = 18, MAX31855_MULT = 0.25 = 1 / 4
MAX31855_SCALE == 18
MAX31855_MULT_DEN == 4
\* MAX6675_SCALE = 3, MAX6675_MULT = 0.25 = 1 / 4
MAX6675_SCALE == 3
MAX6675_MULT_DEN == 4

\* Temperatures are counted in units of 1/TempDen degree: half a MAX31856 LSB.
TempDen == 2 * MAX31856_MULT_DEN
MAX31856_MULT == TempDen \div MAX31856_MULT_DEN
MAX31855_MULT == TempDen \div MAX31855_MULT_DEN
MAX6675_MULT == TempDen \div MAX6675_MULT_DEN

\* MAX31856 configuration register addresses and bits
MAX31856_CR0_REG == 0
MAX31856_CR0_AUTOCONVERT == 128
MAX31856_CR0_FILT50HZ == 1
MAX31856_CR1_REG == 1
MAX31856_CR1_AVGSEL1 == 0
MAX31856_CR1_AVGSEL2 == 16
MAX31856_CR1_AVGSEL4 == 32
MAX31856_CR1_AVGSEL8 == 48
MAX31856_CR1_AVGSEL16 == 112
MAX31856_MASK_REG == 2
MAX31856_MASK_VOLTAGE_UNDER_OVER_FAULT == 2
MAX31856_MASK_THERMOCOUPLE_OPEN_FAULT == 1

\* MAX31856 fault status register bits
MAX31856_FAULT_CJRANGE == 128
MAX31856_FAULT_TCRANGE == 64
MAX31856_FAULT_CJHIGH == 32
MAX31856_FAULT_CJLOW == 16
MAX31856_FAULT_TCHIGH == 8
MAX31856_FAULT_TCLOW == 4
MAX31856_FAULT_OVUV == 2
MAX31856_FAULT_OPEN == 1

\* MAX31865 configuration register address and bits
MAX31865_CONFIG_REG == 0
MAX31865_CONFIG_BIAS == 128
MAX31865_CONFIG_MODEAUTO == 64
MAX31865_CONFIG_3WIRE == 16
MAX31865_CONFIG_FAULTCLEAR == 2
MAX31865_CONFIG_FILT50HZ == 1

\* VALID_SPI_SENSORS
VALID_SPI_SENSORS ==
    [c \in {"MAX31855", "MAX31856", "MAX31865", "MAX6675"} |->
        CASE c = "MAX31855" -> 1
          [] c = "MAX31856" -> 2
          [] c = "MAX31865" -> 4
          [] c = "MAX6675" -> 8]

\* Sensors: the registered chip classes
Sensors == {"MAX6675", "MAX31855", "MAX31856", "MAX31865"}

(***************************************************************************)
(* Python integer operations                                               *)
(***************************************************************************)
RECURSIVE Pow2(_)
Pow2(k) == IF k = 0 THEN 1 ELSE 2 * Pow2(k - 1)

\* x << k and x >> k on unbounded integers (>> is an arithmetic, flooring shift)
ShiftLeft(x, k) == x * Pow2(k)
ShiftRight(x, k) == x \div Pow2(k)

\* x & m for m >= 0; a negative x is read as infinite two's complement
RECURSIVE BitAnd(_, _)
BitAnd(x, m) ==
    IF m = 0 THEN 0
    ELSE (x % 2) * (m % 2) + 2 * BitAnd(x \div 2, m \div 2)

\* x | m for x, m >= 0
RECURSIVE BitOr(_, _)
BitOr(x, m) ==
    IF x = 0 THEN m
    ELSE IF m = 0 THEN x
    ELSE (IF (x % 2) + (m % 2) > 0 THEN 1 ELSE 0) + 2 * BitOr(x \div 2, m \div 2)

\* int(a / b) for b > 0: Python's int() truncates a float toward zero
TruncDiv(a, b) == IF a >= 0 THEN a \div b ELSE -((-a) \div b)

\* int(temp / MULT + 0.5), temp and mult in units: (2 temp + mult) / (2 mult)
IntPlusHalf(temp, mult) == TruncDiv(2 * temp + mult, 2 * mult)

(***************************************************************************)
(* Results of a call that may raise self.error                             *)
(***************************************************************************)
NoError == "none"
Return(t) == [error |-> NoError, temp |-> t]
Raise(msg) == [error |-> msg, temp |-> 0]

(***************************************************************************)
(* MAX31856 thermocouple                                                   *)
(***************************************************************************)
MAX31856_types ==
    [t \in {"B", "E", "J", "K", "N", "R", "S", "T"} |->
        CASE t = "B" -> 0 [] t = "E" -> 1 [] t = "J" -> 2 [] t = "K" -> 3
          [] t = "N" -> 4 [] t = "R" -> 5 [] t = "S" -> 6 [] t = "T" -> 7]

MAX31856_averages ==
    [a \in {"1", "2", "4", "8", "16"} |->
        CASE a = "1" -> MAX31856_CR1_AVGSEL1
          [] a = "2" -> MAX31856_CR1_AVGSEL2
          [] a = "4" -> MAX31856_CR1_AVGSEL4
          [] a = "8" -> MAX31856_CR1_AVGSEL8
          [] a = "16" -> MAX31856_CR1_AVGSEL16]

\* fault variant: the thermocouple high and low checks in the other order
MAX31856_check_faults_tc_swapped(fault) ==
    IF BitAnd(fault, MAX31856_FAULT_CJRANGE) # 0
    THEN "Max31856: Cold Junction Range Fault"
    ELSE IF BitAnd(fault, MAX31856_FAULT_TCRANGE) # 0
    THEN "Max31856: Thermocouple Range Fault"
    ELSE IF BitAnd(fault, MAX31856_FAULT_CJHIGH) # 0
    THEN "Max31856: Cold Junction High Fault"
    ELSE IF BitAnd(fault, MAX31856_FAULT_CJLOW) # 0
    THEN "Max31856: Cold Junction Low Fault"
    ELSE IF BitAnd(fault, MAX31856_FAULT_TCLOW) # 0
    THEN "Max31856: Thermocouple Low Fault"
    ELSE IF BitAnd(fault, MAX31856_FAULT_TCHIGH) # 0
    THEN "Max31856: Thermocouple High Fault"
    ELSE IF BitAnd(fault, MAX31856_FAULT_OVUV) # 0
    THEN "Max31856: Over/Under Voltage Fault"
    ELSE IF BitAnd(fault, MAX31856_FAULT_OPEN) # 0
    THEN "Max31856: Thermocouple Open Fault"
    ELSE NoError

MAX31856_check_faults(fault) ==
    IF BitAnd(fault, MAX31856_FAULT_CJRANGE) # 0
    THEN "Max31856: Cold Junction Range Fault"
    ELSE IF BitAnd(fault, MAX31856_FAULT_TCRANGE) # 0
    THEN "Max31856: Thermocouple Range Fault"
    ELSE IF BitAnd(fault, MAX31856_FAULT_CJHIGH) # 0
    THEN "Max31856: Cold Junction High Fault"
    ELSE IF BitAnd(fault, MAX31856_FAULT_CJLOW) # 0
    THEN "Max31856: Cold Junction Low Fault"
    ELSE IF BitAnd(fault, MAX31856_FAULT_TCHIGH) # 0
    THEN "Max31856: Thermocouple High Fault"
    ELSE IF BitAnd(fault, MAX31856_FAULT_TCLOW) # 0
    THEN "Max31856: Thermocouple Low Fault"
    ELSE IF BitAnd(fault, MAX31856_FAULT_OVUV) # 0
    THEN "Max31856: Over/Under Voltage Fault"
    ELSE IF BitAnd(fault, MAX31856_FAULT_OPEN) # 0
    THEN "Max31856: Thermocouple Open Fault"
    ELSE NoError

\* fault variant: the sign fix without its "+ 1"
MAX31856_calc_temp_no_increment(adc) ==
    LET shifted == ShiftRight(adc, MAX31856_SCALE)
        fixed == IF BitAnd(shifted, 262144) # 0
                 THEN BitAnd(shifted, 262143) * (-1)
                 ELSE shifted
    IN  Return(MAX31856_MULT * fixed)

MAX31856_calc_temp(adc) ==
    LET shifted == ShiftRight(adc, MAX31856_SCALE)
        \* Fix sign bit: 0x40000, 0x3FFFF
        fixed == IF BitAnd(shifted, 262144) # 0
                 THEN (BitAnd(shifted, 262143) + 1) * (-1)
                 ELSE shifted
    IN  Return(MAX31856_MULT * fixed)

MAX31856_calc_adc(temp) ==
    ShiftLeft(IntPlusHalf(temp, MAX31856_MULT), MAX31856_SCALE)

\* opts.tc_type and opts.average_count hold the looked-up register codes
MAX31856_get_configs(opts) ==
    LET cr0 == IF opts.use_50Hz_filter
               THEN BitOr(MAX31856_CR0_AUTOCONVERT, MAX31856_CR0_FILT50HZ)
               ELSE MAX31856_CR0_AUTOCONVERT
        cr1 == BitOr(opts.tc_type, opts.average_count)
        mask == BitOr(MAX31856_MASK_VOLTAGE_UNDER_OVER_FAULT,
                      MAX31856_MASK_THERMOCOUPLE_OPEN_FAULT)
    IN  << 128 + MAX31856_CR0_REG, cr0,
           128 + MAX31856_CR1_REG, cr1,
           128 + MAX31856_MASK_REG, mask >>

(***************************************************************************)
(* MAX31855 thermocouple                                                   *)
(***************************************************************************)
MAX31855_check_faults(fault) == NoError

MAX31855_calc_temp(adc) ==
    IF BitAnd(adc, 1) # 0 THEN Raise("MAX31855 : Open Circuit")
    ELSE IF BitAnd(adc, 2) # 0 THEN Raise("MAX31855 : Short to GND")
    ELSE IF BitAnd(adc, 4) # 0 THEN Raise("MAX31855 : Short to Vcc")
    ELSE LET shifted == ShiftRight(adc, MAX31855_SCALE)
             \* Fix sign bit: 0x2000, 0x1FFF
             fixed == IF BitAnd(shifted, 8192) # 0
                      THEN (BitAnd(shifted, 8191) + 1) * (-1)
                      ELSE shifted
         IN  Return(MAX31855_MULT * fixed)

MAX31855_calc_adc(temp) ==
    ShiftLeft(IntPlusHalf(temp, MAX31855_MULT), MAX31855_SCALE)

MAX31855_get_configs == << >>

(***************************************************************************)
(* MAX6675 thermocouple                                                    *)
(***************************************************************************)
MAX6675_check_faults(fault) == NoError

MAX6675_calc_temp(adc) ==
    IF BitAnd(adc, 2) # 0 THEN Raise("Max6675 : Device ID error")
    ELSE IF BitAnd(adc, 4) # 0 THEN Raise("Max6675 : Thermocouple Open Fault")
    ELSE LET shifted == ShiftRight(adc, MAX6675_SCALE)
             \* Fix sign bit: 0x2000, 0x1FFF
             fixed == IF BitAnd(shifted, 8192) # 0
                      THEN (BitAnd(shifted, 8191) + 1) * (-1)
                      ELSE shifted
         IN  Return(MAX6675_MULT * fixed)

MAX6675_calc_adc(temp) ==
    ShiftLeft(IntPlusHalf(temp, MAX6675_MULT), MAX6675_SCALE)

MAX6675_get_configs == << >>

(***************************************************************************)
(* MAX31865 (RTD sensor)                                                   *)
(*                                                                         *)
(* The session uses the default rtd_nominal_r = 100 and rtd_reference_r =  *)
(* 430.  With VAL_A = 0.00390830 and VAL_B = 0.0000005775 the steps of     *)
(* calc_adc compute R_rtd = nominal_r * (1 + VAL_A*T + VAL_B*T*T), which   *)
(* is nominal_r * CVD(T) / 400000000 for a whole-degree T, and the ADC     *)
(* code R_rtd * VAL_ADC_MAX / reference_r = CVD(T) * RTD_NUM / RTD_DEN.    *)
(* The float arithmetic is modelled by this exact rational value; calc_adc *)
(* is modelled on whole degrees and calc_temp to the whole degree below.   *)
(***************************************************************************)
\* defaults of rtd_nominal_r and rtd_reference_r; VAL_ADC_MAX = 32768.0
rtd_nominal_r == 100
reference_r == 430
VAL_ADC_MAX == 32768
\* VAL_A * 4*10^8 and VAL_B * 4*10^8
VAL_A_SCALED == 1563320
VAL_B_SCALED == 231
CVD_ONE == 400000000
\* (rtd_nominal_r * VAL_ADC_MAX) / (reference_r * CVD_ONE) in lowest terms
RTD_NUM == (rtd_nominal_r * VAL_ADC_MAX) \div 51200
RTD_DEN == (reference_r * (CVD_ONE \div 512)) \div 100

\* CVD_ONE * (1 + VAL_A*T + VAL_B*T*T), T in whole degrees
CVD(T) == CVD_ONE + VAL_A_SCALED * T + VAL_B_SCALED * T * T

\* int(p * RTD_NUM / RTD_DEN + 0.5), computed without leaving 32 bits
RtdCodeOf(p) ==
    LET q == p \div RTD_DEN
        r == p % RTD_DEN
        num == 2 * RTD_NUM * r + RTD_DEN
        den == 2 * RTD_DEN
        floored == RTD_NUM * q + (num \div den)
    IN  IF floored >= 0 \/ num % den = 0 THEN floored ELSE floored + 1

\* whether p * RTD_NUM / RTD_DEN <= code
RtdAtMost(p, code) ==
    LET q == p \div RTD_DEN
        r == p % RTD_DEN
    IN  RTD_NUM * q + ((RTD_NUM * r + RTD_DEN - 1) \div RTD_DEN) <= code

MAX31865_check_faults(fault) ==
    IF BitAnd(fault, 128) # 0
    THEN "Max31865 RTD input is disconnected"
    ELSE IF BitAnd(fault, 64) # 0
    THEN "Max31865 RTD input is shorted"
    ELSE IF BitAnd(fault, 32) # 0
    THEN "Max31865 VREF- is greater than 0.85 * VBIAS, FORCE- open"
    ELSE IF BitAnd(fault, 16) # 0
    THEN "Max31865 VREF- is less than 0.85 * VBIAS, FORCE- open"
    ELSE IF BitAnd(fault, 8) # 0
    THEN "Max31865 VRTD- is less than 0.85 * VBIAS, FORCE- open"
    ELSE IF BitAnd(fault, 4) # 0
    THEN "Max31865 Overvoltage or undervoltage fault"
    ELSE IF BitAnd(fault, 3) # 0
    THEN "Max31865 Unspecified error"
    ELSE NoError

\* the largest T in lo..hi with CVD(T) * RTD_NUM / RTD_DEN <= code, by bisection
\* (CVD grows with T over the range searched)
RECURSIVE RtdFloor(_, _, _)
RtdFloor(lo, hi, code) ==
    IF lo = hi THEN lo
    ELSE LET mid == (lo + hi + 1) \div 2
         IN  IF RtdAtMost(CVD(mid), code)
             THEN RtdFloor(mid, hi, code)
             ELSE RtdFloor(lo, mid - 1, code)

\* The positive root of the quadratic: the largest T whose resistance is at
\* most the measured one, here to the whole degree below (15-bit codes lie
\* between -267 and 760 degrees).
MAX31865_calc_temp(adc) ==
    LET code == ShiftRight(adc, 1)
    IN  Return(RtdFloor(-267, 760, code) * TempDen)

MAX31865_calc_adc(temp) ==
    ShiftLeft(RtdCodeOf(CVD(temp \div TempDen)), 1)

MAX31865_get_configs(opts) ==
    LET v0 == BitOr(BitOr(MAX31865_CONFIG_BIAS, MAX31865_CONFIG_MODEAUTO),
                    MAX31865_CONFIG_FAULTCLEAR)
        v1 == IF opts.use_50Hz_filter
              THEN BitOr(v0, MAX31865_CONFIG_FILT50HZ) ELSE v0
        v2 == IF opts.num_wires = 3
              THEN BitOr(v1, MAX31865_CONFIG_3WIRE) ELSE v1
    IN  << 128 + MAX31865_CONFIG_REG, v2 >>

(***************************************************************************)
(* Dispatch on the chip class                                              *)
(***************************************************************************)
check_faults(chip, fault) ==
    CASE chip = "MAX31856" -> MAX31856_check_faults(fault)
      [] chip = "MAX31855" -> MAX31855_check_faults(fault)
      [] chip = "MAX6675" -> MAX6675_check_faults(fault)
      [] chip = "MAX31865" -> MAX31865_check_faults(fault)

calc_temp(chip, adc) ==
    CASE chip = "MAX31856" -> MAX31856_calc_temp(adc)
      [] chip = "MAX31855" -> MAX31855_calc_temp(adc)
      [] chip = "MAX6675" -> MAX6675_calc_temp(adc)
      [] chip = "MAX31865" -> MAX31865_calc_temp(adc)

calc_adc(chip, temp) ==
    CASE chip = "MAX31856" -> MAX31856_calc_adc(temp)
      [] chip = "MAX31855" -> MAX31855_calc_adc(temp)
      [] chip = "MAX6675" -> MAX6675_calc_adc(temp)
      [] chip = "MAX31865" -> MAX31865_calc_adc(temp)

get_configs(chip, opts) ==
    CASE chip = "MAX31856" -> MAX31856_get_configs(opts)
      [] chip = "MAX31855" -> MAX31855_get_configs
      [] chip = "MAX6675" -> MAX6675_get_configs
      [] chip = "MAX31865" -> MAX31865_get_configs(opts)

(***************************************************************************)
(* Collaborators outside this file: config, mcu                            *)
(***************************************************************************)
\* config.getint(name, minval=.., maxval=..) and getint(name, minval=..) accept v
config_getint_ok(v, minval, maxval) == v >= minval /\ v <= maxval
config_getint_min_ok(v, minval) == v >= minval

\* config.getchoice(name, choices) accepts v
config_getchoice_ok(v, choices) == v \in DOMAIN choices

\* mcu clock frequency, in ticks per second
TicksPerSecond == 10

\* mcu.seconds_to_clock, on milliseconds
seconds_to_clock(ms) == (ms * TicksPerSecond) \div 1000

\* mcu.get_query_slot: a clock some whole seconds ahead, offset per oid
get_query_slot(oid) == TicksPerSecond + oid

\* mcu.clock32_to_clock64: no 32-bit wrap happens within the modelled clocks
clock32_to_clock64(c) == c

\* mcu.clock_to_print_time, in milliseconds
clock_to_print_time(c) == (c * 1000) \div TicksPerSecond

(***************************************************************************)
(* Bounds and input sets                                                   *)
(***************************************************************************)
\* samples delivered to a session
MaxSamples == 2
\* times the mcu builds its configuration
MaxBuildConfig == 1
\* temperatures tried by the round trip, in units around zero
MaxTempIn == 200

Deg(d) == d * TempDen

SpiModes == {-1, 3, 4}
SpiSpeeds == {-1, 4000000}
TcTypes == {"K", "X"}
AveragingCounts == {"16", "3"}
NumWires == {2, 3}
Callbacks == {"temperature_callback"}
\* the heater's min_temp / max_temp, whole degrees
ConfigTemps == {Deg(-270), Deg(0), Deg(300)}

\* raw values reported to a session: a clean one, and one with fault bits
\* where the chip keeps them in the value
SampleValues(chip) ==
    CASE chip = "MAX31855" -> {ShiftLeft(100, 18), ShiftLeft(100, 18) + 6}
      [] chip = "MAX6675" -> {ShiftLeft(100, 3), ShiftLeft(100, 3) + 4}
      [] chip = "MAX31856" -> {ShiftLeft(3200, 5), ShiftLeft(262144 + 3200, 5)}
      [] chip = "MAX31865" -> {2 * 8000, 2 * 9000}
      [] OTHER -> {}
SampleFaults == {0, 192}
SampleClocks == {20}

\* raw values decoded on their own: zero, each low bit and each of their
\* combinations, with and without magnitude bits, and the largest magnitudes
\* (the sign bit of the field where the value stays below 2^31)
RawValues(chip) ==
    CASE chip = "MAX31855" ->
             (0 .. 7) \cup {ShiftLeft(100, 18) + b : b \in 0 .. 7}
                 \cup {ShiftLeft(8191, 18)}
      [] chip = "MAX6675" ->
             (0 .. 7) \cup {ShiftLeft(1, 3) + b : b \in 0 .. 7}
                 \cup {ShiftLeft(8192, 3)}
      [] chip = "MAX31856" -> {0, 31, ShiftLeft(3200, 5), 524288, 8388608}
      [] chip = "MAX31865" -> {0, 1, 2 * 8000, 2 * 8000 + 1, 65535}
FaultBytes == 0 .. 255
NextClocks == {20, 23}

(***************************************************************************)
(* State                                                                   *)
(***************************************************************************)
VARIABLES
    state,             \* "unconstructed", "ready" (__init__ returned), "failed" (it raised)
    config,            \* the config section the constructor was given
    chip_type,         \* self.chip_type
    oid,               \* self.oid
    next_oid,          \* the mcu's oid allocator
    config_cmds,       \* the mcu's queue of configuration commands
    msg_handlers,      \* handlers given to mcu.register_msg
    config_objects,    \* objects given to mcu.add_config_object
    _callback,         \* self._callback
    min_sample_value,  \* self.min_sample_value
    max_sample_value,  \* self.max_sample_value
    _report_clock,     \* self._report_clock
    heater_minmax,     \* the range last given to setup_minmax
    readings,          \* the (time, temp) pairs the callback received
    errors,            \* the errors _handle_spi_response raised
    last,              \* the last params handled, with the outcome
    fn_chip, fn_temp, fn_adc, fn_fault, fn_result, fn_pc  \* a transfer function run on its own

session_vars ==
    << state, config, chip_type, oid, next_oid, config_cmds, msg_handlers, config_objects,
       _callback, min_sample_value, max_sample_value, _report_clock, heater_minmax,
       readings, errors, last >>
fn_vars == << fn_chip, fn_temp, fn_adc, fn_fault, fn_result, fn_pc >>
vars == << session_vars, fn_vars >>

None == "None"
NoParams == [value |-> 0, fault |-> 0, next_clock |-> 0]
NoOutcome == [error |-> NoError, delivered |-> FALSE, time |-> 0, temp |-> 0]

Min2(a, b) == IF a <= b THEN a ELSE b
Max2(a, b) == IF a >= b THEN a ELSE b

(***************************************************************************)
(* SensorBase                                                              *)
(***************************************************************************)
\* "".join("%02x" % b for b in ...), for bytes below 256
HexDigit(d) ==
    CASE d = 10 -> "a" [] d = 11 -> "b" [] d = 12 -> "c" [] d = 13 -> "d"
      [] d = 14 -> "e" [] d = 15 -> "f" [] OTHER -> ToString(d)
RECURSIVE HexJoin(_)
HexJoin(bytes) ==
    IF bytes = << >> THEN ""
    ELSE HexDigit(Head(bytes) \div 16) \o HexDigit(Head(bytes) % 16)
             \o HexJoin(Tail(bytes))

Cmd(name, is_init, args) == [cmd |-> name, is_init |-> is_init, args |-> args]

\* what __init__ has done when it returns or raises
InitFailed(oids) ==
    [error |-> "config error", cmds |-> << >>, registered |-> FALSE,
     added |-> FALSE, oid |-> 0, next_oid |-> oids]

\* fault variant: config_spi enqueued before spi_mode and spi_speed are read
SensorBase_init_late_check(chip, cfg, opts, oid0) ==
    LET spi_oid == oid0
        the_oid == oid0 + 1
        config_spi == Cmd("config_spi", FALSE,
                          [oid |-> spi_oid, bus |-> 0, pin |-> cfg.sensor_pin,
                           mode |-> cfg.spi_mode, rate |-> cfg.spi_speed])
    IN  IF ~config_getint_ok(cfg.spi_mode, 0, 3)
               \/ ~config_getint_min_ok(cfg.spi_speed, 0)
        THEN [error |-> "config error", cmds |-> << config_spi >>,
              registered |-> FALSE, added |-> FALSE, oid |-> 0,
              next_oid |-> oid0 + 1]
        ELSE [error |-> NoError,
              cmds |-> << config_spi,
                          Cmd("spi_send", TRUE,
                              [oid |-> spi_oid,
                               data |-> HexJoin(get_configs(chip, opts))]),
                          Cmd("config_thermocouple", FALSE,
                              [oid |-> the_oid, spi_oid |-> spi_oid,
                               chip_type |-> VALID_SPI_SENSORS[chip]]) >>,
              registered |-> TRUE, added |-> TRUE,
              oid |-> the_oid, next_oid |-> oid0 + 2]

\* fault variant: the chip registered with the sampler before its init bytes
SensorBase_init_reordered(chip, cfg, opts, oid0) ==
    LET spi_oid == oid0
        the_oid == oid0 + 1
    IN  IF ~config_getint_ok(cfg.spi_mode, 0, 3) THEN InitFailed(oid0 + 1)
        ELSE IF ~config_getint_min_ok(cfg.spi_speed, 0) THEN InitFailed(oid0 + 1)
        ELSE [error |-> NoError,
              cmds |-> << Cmd("config_spi", FALSE,
                              [oid |-> spi_oid, bus |-> 0, pin |-> cfg.sensor_pin,
                               mode |-> cfg.spi_mode, rate |-> cfg.spi_speed]),
                          Cmd("config_thermocouple", FALSE,
                              [oid |-> the_oid, spi_oid |-> spi_oid,
                               chip_type |-> VALID_SPI_SENSORS[chip]]),
                          Cmd("spi_send", TRUE,
                              [oid |-> spi_oid,
                               data |-> HexJoin(get_configs(chip, opts))]) >>,
              registered |-> TRUE, added |-> TRUE,
              oid |-> the_oid, next_oid |-> oid0 + 2]

\* SensorBase.__init__ from the SPI bus configuration on; opts are the
\* options the chip class has read, oid0 the mcu's next free oid
SensorBase_init(chip, cfg, opts, oid0) ==
    LET spi_oid == oid0
        the_oid == oid0 + 1
    IN  IF ~config_getint_ok(cfg.spi_mode, 0, 3) THEN InitFailed(oid0 + 1)
        ELSE IF ~config_getint_min_ok(cfg.spi_speed, 0) THEN InitFailed(oid0 + 1)
        ELSE [error |-> NoError,
              cmds |-> << Cmd("config_spi", FALSE,
                              [oid |-> spi_oid, bus |-> 0, pin |-> cfg.sensor_pin,
                               mode |-> cfg.spi_mode, rate |-> cfg.spi_speed]),
                          Cmd("spi_send", TRUE,
                              [oid |-> spi_oid,
                               data |-> HexJoin(get_configs(chip, opts))]),
                          Cmd("config_thermocouple", FALSE,
                              [oid |-> the_oid, spi_oid |-> spi_oid,
                               chip_type |-> VALID_SPI_SENSORS[chip]]) >>,
              registered |-> TRUE, added |-> TRUE,
              oid |-> the_oid, next_oid |-> oid0 + 2]

MAX31856_init(cfg, oid0) ==
    IF ~config_getchoice_ok(cfg.tc_type, MAX31856_types) THEN InitFailed(oid0)
    ELSE IF ~config_getchoice_ok(cfg.tc_averaging_count, MAX31856_averages)
    THEN InitFailed(oid0)
    ELSE SensorBase_init("MAX31856", cfg,
             [tc_type |-> MAX31856_types[cfg.tc_type],
              use_50Hz_filter |-> cfg.use_50Hz_filter,
              average_count |-> MAX31856_averages[cfg.tc_averaging_count]],
             oid0)

MAX31855_init(cfg, oid0) == SensorBase_init("MAX31855", cfg, [none |-> 0], oid0)

MAX6675_init(cfg, oid0) == SensorBase_init("MAX6675", cfg, [none |-> 0], oid0)

MAX31865_init(cfg, oid0) ==
    SensorBase_init("MAX31865", cfg,
        [num_wires |-> cfg.rtd_num_of_wires,
         use_50Hz_filter |-> cfg.use_50Hz_filter],
        oid0)

\* Sensors[name](config)
Construct(chip, cfg) ==
    /\ state = "unconstructed"
    /\ LET r == CASE chip = "MAX31856" -> MAX31856_init(cfg, next_oid)
                  [] chip = "MAX31855" -> MAX31855_init(cfg, next_oid)
                  [] chip = "MAX6675" -> MAX6675_init(cfg, next_oid)
                  [] chip = "MAX31865" -> MAX31865_init(cfg, next_oid)
       IN  /\ state' = IF r.error = NoError THEN "ready" ELSE "failed"
           /\ config' = cfg
           /\ chip_type' = chip
           /\ oid' = r.oid
           /\ next_oid' = r.next_oid
           /\ config_cmds' = config_cmds \o r.cmds
           /\ msg_handlers' = IF r.registered
                              THEN msg_handlers \cup {<<"thermocouple_result", r.oid>>}
                              ELSE msg_handlers
           /\ config_objects' = IF r.added THEN config_objects + 1 ELSE config_objects
    /\ _callback' = None
    /\ min_sample_value' = 0
    /\ max_sample_value' = 0
    /\ _report_clock' = 0
    /\ UNCHANGED << heater_minmax, readings, errors, last, fn_vars >>

\* fault variant: the two codes stored in argument order
adc_minmax_unsorted(chip, min_temp, max_temp) ==
    [min |-> calc_adc(chip, min_temp), max |-> calc_adc(chip, max_temp)]

\* the body of setup_minmax: the new (min_sample_value, max_sample_value)
adc_minmax(chip, min_temp, max_temp) ==
    LET adc_range == << calc_adc(chip, min_temp), calc_adc(chip, max_temp) >>
    IN  [min |-> Min2(adc_range[1], adc_range[2]),
         max |-> Max2(adc_range[1], adc_range[2])]

setup_minmax(min_temp, max_temp) ==
    /\ state = "ready"
    /\ LET r == adc_minmax(chip_type, min_temp, max_temp)
       IN  /\ min_sample_value' = r.min
           /\ max_sample_value' = r.max
    /\ heater_minmax' = << min_temp, max_temp >>
    /\ UNCHANGED << state, config, chip_type, oid, next_oid, config_cmds, msg_handlers,
                    config_objects, _callback, _report_clock, readings, errors,
                    last, fn_vars >>

setup_callback(cb) ==
    /\ state = "ready"
    /\ _callback' = cb
    /\ UNCHANGED << state, config, chip_type, oid, next_oid, config_cmds, msg_handlers,
                    config_objects, min_sample_value, max_sample_value,
                    _report_clock, heater_minmax, readings, errors, last, fn_vars >>

QueryCmds == SelectSeq(config_cmds, LAMBDA c : c.cmd = "query_thermocouple")

\* the heater has given its range before the mcu connects and builds its
\* configuration, which it does MaxBuildConfig times at most
mcu_may_build_config ==
    /\ config_objects > 0
    /\ heater_minmax # << >>
    /\ Len(QueryCmds) < MaxBuildConfig

\* fault variant: the two bounds in the other order
query_thermocouple_swapped(the_oid, clock, rest_ticks, min_value, max_value) ==
    Cmd("query_thermocouple", FALSE,
        [oid |-> the_oid, clock |-> clock, rest_ticks |-> rest_ticks,
         min_value |-> max_value, max_value |-> min_value])

\* the command build_config enqueues
query_thermocouple(the_oid, clock, rest_ticks, min_value, max_value) ==
    Cmd("query_thermocouple", FALSE,
        [oid |-> the_oid, clock |-> clock, rest_ticks |-> rest_ticks,
         min_value |-> min_value, max_value |-> max_value])

build_config ==
    /\ mcu_may_build_config
    /\ LET clock == get_query_slot(oid)
       IN  /\ _report_clock' = seconds_to_clock(REPORT_TIME_MS)
           /\ config_cmds' = Append(config_cmds,
                  query_thermocouple(oid, clock, _report_clock',
                                     min_sample_value, max_sample_value))
    /\ UNCHANGED << state, config, chip_type, oid, next_oid, msg_handlers, config_objects,
                    _callback, min_sample_value, max_sample_value, heater_minmax,
                    readings, errors, last, fn_vars >>

\* the firmware reports once it has the query command, MaxSamples times at most
mcu_may_report ==
    /\ << "thermocouple_result", oid >> \in msg_handlers
    /\ Len(QueryCmds) > 0
    /\ Len(readings) + Len(errors) < MaxSamples

\* fault variant: the callback invoked before check_faults
spi_response_callback_first(chip, cb, report_clock, params) ==
    LET next_clock == clock32_to_clock64(params.next_clock)
        last_read_time == clock_to_print_time(next_clock - report_clock)
        temp == calc_temp(chip, params.value)
        fault == check_faults(chip, params.fault)
    IN  IF temp.error # NoError
        THEN [error |-> temp.error, delivered |-> FALSE, time |-> 0, temp |-> 0]
        ELSE [error |-> fault, delivered |-> cb # None,
              time |-> last_read_time, temp |-> temp.temp]

\* the body of _handle_spi_response: the error raised, or whether the
\* callback ran and with what
spi_response(chip, cb, report_clock, params) ==
    LET last_value == params.value
        next_clock == clock32_to_clock64(params.next_clock)
        last_read_clock == next_clock - report_clock
        last_read_time == clock_to_print_time(last_read_clock)
        temp == calc_temp(chip, last_value)
        fault == check_faults(chip, params.fault)
    IN  IF temp.error # NoError
        THEN [error |-> temp.error, delivered |-> FALSE, time |-> 0, temp |-> 0]
        ELSE IF fault # NoError
        THEN [error |-> fault, delivered |-> FALSE, time |-> 0, temp |-> 0]
        ELSE [error |-> NoError, delivered |-> cb # None,
              time |-> last_read_time, temp |-> temp.temp]

_handle_spi_response(params) ==
    /\ mcu_may_report
    /\ LET r == spi_response(chip_type, _callback, _report_clock, params)
       IN  /\ readings' = IF r.delivered
                          THEN Append(readings, << r.time, r.temp >>)
                          ELSE readings
           /\ errors' = IF r.error # NoError THEN Append(errors, r.error) ELSE errors
           /\ last' = [params |-> params, outcome |-> r]
    /\ UNCHANGED << state, config, chip_type, oid, next_oid, config_cmds, msg_handlers,
                    config_objects, _callback, min_sample_value, max_sample_value,
                    _report_clock, heater_minmax, fn_vars >>

(***************************************************************************)
(* The session: construction, the heater's setup calls, the mcu's          *)
(* build_config at connect, and the samples the firmware reports           *)
(***************************************************************************)
\* the options each chip class reads from its config section
Configs(chip) ==
    CASE chip = "MAX31856" ->
             [sensor_pin : {"PA4"}, spi_mode : SpiModes, spi_speed : SpiSpeeds,
              tc_type : TcTypes, tc_averaging_count : AveragingCounts,
              use_50Hz_filter : BOOLEAN]
      [] chip = "MAX31865" ->
             [sensor_pin : {"PA4"}, spi_mode : SpiModes, spi_speed : SpiSpeeds,
              use_50Hz_filter : BOOLEAN, rtd_num_of_wires : NumWires]
      [] OTHER ->
             [sensor_pin : {"PA4"}, spi_mode : SpiModes, spi_speed : SpiSpeeds]

SessionInit ==
    /\ state = "unconstructed"
    /\ config = [sensor_pin |-> None]
    /\ chip_type = None
    /\ oid = 0
    /\ next_oid = 0
    /\ config_cmds = << >>
    /\ msg_handlers = {}
    /\ config_objects = 0
    /\ _callback = None
    /\ min_sample_value = 0
    /\ max_sample_value = 0
    /\ _report_clock = 0
    /\ heater_minmax = << >>
    /\ readings = << >>
    /\ errors = << >>
    /\ last = [params |-> NoParams, outcome |-> NoOutcome]

Init ==
    /\ SessionInit
    /\ fn_chip = None
    /\ fn_temp = 0
    /\ fn_adc = 0
    /\ fn_fault = 0
    /\ fn_result = NoOutcome
    /\ fn_pc = "idle"

Next ==
    \/ \E chip \in Sensors : \E cfg \in Configs(chip) : Construct(chip, cfg)
    \/ \E min_temp \in ConfigTemps, max_temp \in ConfigTemps :
           setup_minmax(min_temp, max_temp)
    \/ \E cb \in Callbacks : setup_callback(cb)
    \/ build_config
    \/ \E value \in SampleValues(chip_type), fault \in SampleFaults,
          next_clock \in SampleClocks :
           _handle_spi_response(
               [value |-> value, fault |-> fault, next_clock |-> next_clock])

Spec == Init /\ [][Next]_vars

(***************************************************************************)
(* The transfer functions on their own: calc_adc, then calc_temp of its    *)
(* result, for the chips with a sign-fixed linear code                     *)
(***************************************************************************)
LinearChips == {"MAX31855", "MAX6675", "MAX31856"}

\* every 1/TempDen degree around zero, and whole degrees across the field
TempInputs ==
    (-MaxTempIn .. MaxTempIn)
        \cup {Deg(d) : d \in {-2047, -1000, -100, -1, 1, 100, 1000, 2047}}

MULT(chip) ==
    CASE chip = "MAX31855" -> MAX31855_MULT
      [] chip = "MAX6675" -> MAX6675_MULT
      [] chip = "MAX31856" -> MAX31856_MULT

SCALE(chip) ==
    CASE chip = "MAX31855" -> MAX31855_SCALE
      [] chip = "MAX6675" -> MAX6675_SCALE
      [] chip = "MAX31856" -> MAX31856_SCALE

FnInit ==
    /\ SessionInit
    /\ fn_chip \in LinearChips
    /\ fn_temp \in TempInputs
    /\ fn_adc = 0
    /\ fn_fault = 0
    /\ fn_result = NoOutcome
    /\ fn_pc = "start"

Encode ==
    /\ fn_pc = "start"
    /\ fn_adc' = calc_adc(fn_chip, fn_temp)
    /\ fn_pc' = "encoded"
    /\ UNCHANGED << session_vars, fn_chip, fn_temp, fn_fault, fn_result >>

Decode ==
    /\ fn_pc = "encoded"
    /\ LET r == calc_temp(fn_chip, fn_adc)
       IN  fn_result' = [error |-> r.error, delivered |-> FALSE, time |-> 0,
                         temp |-> r.temp]
    /\ fn_pc' = "decoded"
    /\ UNCHANGED << session_vars, fn_chip, fn_temp, fn_adc, fn_fault >>

FnNext == Encode \/ Decode

FnSpec == FnInit /\ [][FnNext]_vars

(***************************************************************************)
(* One sample on its own: the body of _handle_spi_response on a raw value  *)
(* and fault byte, for a session that polls with its callback set          *)
(***************************************************************************)
SampleInit ==
    /\ SessionInit
    /\ fn_chip \in Sensors
    /\ fn_temp = 0
    /\ fn_adc \in RawValues(fn_chip)
    /\ fn_fault \in FaultBytes
    /\ fn_result = NoOutcome
    /\ fn_pc = "start"

Respond(cb, next_clock) ==
    /\ fn_pc = "start"
    /\ fn_result' = spi_response(fn_chip, cb, seconds_to_clock(REPORT_TIME_MS),
                        [value |-> fn_adc, fault |-> fn_fault,
                         next_clock |-> next_clock])
    /\ fn_pc' = "responded"
    /\ UNCHANGED << session_vars, fn_chip, fn_temp, fn_adc, fn_fault >>

SampleNext == \E cb \in Callbacks, next_clock \in NextClocks : Respond(cb, next_clock)

SampleSpec == SampleInit /\ [][SampleNext]_vars

(***************************************************************************)
(* Properties                                                              *)
(***************************************************************************)
\* the fault bits each chip recognizes, as the chips' tables give them
CarriesFault(chip, value, fault) ==
    CASE chip = "MAX31855" -> value % 8 # 0
      [] chip = "MAX6675" -> (value \div 2) % 4 # 0
      [] chip = "MAX31856" -> fault % 256 # 0
      [] chip = "MAX31865" -> fault % 256 # 0

\* each chip's faults in its check order: the bit, and the message
FaultTable(chip) ==
    CASE chip = "MAX31855" ->
             << <<1, "MAX31855 : Open Circuit">>,
                <<2, "MAX31855 : Short to GND">>,
                <<4, "MAX31855 : Short to Vcc">> >>
      [] chip = "MAX6675" ->
             << <<2, "Max6675 : Device ID error">>,
                <<4, "Max6675 : Thermocouple Open Fault">> >>
      [] chip = "MAX31856" ->
             << <<128, "Max31856: Cold Junction Range Fault">>,
                <<64, "Max31856: Thermocouple Range Fault">>,
                <<32, "Max31856: Cold Junction High Fault">>,
                <<16, "Max31856: Cold Junction Low Fault">>,
                <<8, "Max31856: Thermocouple High Fault">>,
                <<4, "Max31856: Thermocouple Low Fault">>,
                <<2, "Max31856: Over/Under Voltage Fault">>,
                <<1, "Max31856: Thermocouple Open Fault">> >>
      [] chip = "MAX31865" ->
             << <<128, "Max31865 RTD input is disconnected">>,
                <<64, "Max31865 RTD input is shorted">>,
                <<32, "Max31865 VREF- is greater than 0.85 * VBIAS, FORCE- open">>,
                <<16, "Max31865 VREF- is less than 0.85 * VBIAS, FORCE- open">>,
                <<8, "Max31865 VRTD- is less than 0.85 * VBIAS, FORCE- open">>,
                <<4, "Max31865 Overvoltage or undervoltage fault">>,
                <<2, "Max31865 Unspecified error">>,
                <<1, "Max31865 Unspecified error">> >>

\* the word the chip keeps its fault bits in
FaultWord(chip, value, fault) ==
    IF chip \in {"MAX31855", "MAX6675"} THEN value ELSE fault

\* the message of the first fault of the table whose bit is set
FirstFault(chip, value, fault) ==
    LET word == FaultWord(chip, value, fault)
        hits == SelectSeq(FaultTable(chip), LAMBDA e : (word \div e[1]) % 2 = 1)
    IN  IF hits = << >> THEN NoError ELSE Head(hits)[2]

\* a step of _handle_spi_response
Handled == last' # last \/ readings' # readings \/ errors' # errors

\* C1: a sample that carries a fault raises an error, reaches no callback and
\* leaves the callback, the min/max sample values and the report clock as they
\* were; a sample without fault, also after faults, is converted and given
\* to the callback, if one is set, with its time and temperature.
C1_FaultSkipsCallback ==
    [][Handled =>
        LET p == last'.params
            r == last'.outcome
        IN  /\ UNCHANGED << _callback, min_sample_value, max_sample_value,
                            _report_clock >>
            /\ IF CarriesFault(chip_type, p.value, p.fault)
               THEN /\ r.error # NoError
                    /\ errors' = Append(errors, r.error)
                    /\ readings' = readings
               ELSE /\ r.error = NoError
                    /\ errors' = errors
                    /\ readings' =
                           IF _callback # None
                           THEN Append(readings,
                                    << clock_to_print_time(p.next_clock - _report_clock),
                                       calc_temp(chip_type, p.value).temp >>)
                           ELSE readings]_vars

\* a reading delivered after an earlier sample raised a fault
C1_Witness ==
    /\ Len(errors) >= 1
    /\ last.outcome.delivered
    /\ Len(readings) >= 1
    /\ readings[Len(readings)] = << last.outcome.time, last.outcome.temp >>

\* C2: for the two's-complement chips, calc_temp(calc_adc(T)) is within one
\* multiplier of T, for negative as for non-negative T.
C2_RoundTrip ==
    fn_pc = "decoded" =>
        /\ fn_result.error = NoError
        /\ fn_result.temp - fn_temp <= MULT(fn_chip)
        /\ fn_temp - fn_result.temp <= MULT(fn_chip)

\* C3: a sample raises a fault exactly when one of the chip's fault bits is
\* set, whatever the other bits are, and the fault raised is the first of the
\* chip's check order whose bit is set.
C3_FaultIffBitSet ==
    fn_pc = "responded" =>
        /\ (fn_result.error # NoError) = CarriesFault(fn_chip, fn_adc, fn_fault)
        /\ fn_result.error = FirstFault(fn_chip, fn_adc, fn_fault)

\* several fault bits set over zero magnitude bits: the first checked is raised
C3_Witness ==
    /\ fn_pc = "responded"
    /\ fn_chip = "MAX31856"
    /\ fn_adc = 0
    /\ fn_fault = 12
    /\ fn_result.error = "Max31856: Thermocouple High Fault"

\* C4: min_sample_value <= max_sample_value in every state, and once
\* setup_minmax was called the pair is the min and the max of the codes of the
\* two temperatures given, in whichever order they were given.
C4_MinMaxOrdered ==
    /\ min_sample_value <= max_sample_value
    /\ heater_minmax # << >> =>
           LET a == calc_adc(chip_type, heater_minmax[1])
               b == calc_adc(chip_type, heater_minmax[2])
           IN  /\ min_sample_value = Min2(a, b)
               /\ max_sample_value = Max2(a, b)

\* the range given upper end first, its lower end negative
C4_Witness ==
    /\ heater_minmax = << Deg(300), Deg(-270) >>
    /\ min_sample_value < 0
    /\ max_sample_value > 0

\* the invalid option values: spi_mode, and for MAX31856 tc_type and tc_averaging_count
InvalidOption ==
    \/ config.spi_mode \notin 0 .. 3
    \/ /\ chip_type = "MAX31856"
       /\ \/ config.tc_type \notin {"B", "E", "J", "K", "N", "R", "S", "T"}
          \/ config.tc_averaging_count \notin {"1", "2", "4", "8", "16"}

\* C5: a constructor given an invalid option fails with nothing enqueued and
\* nothing registered, and that session neither queries nor delivers.
C5_InvalidOptionFails ==
    (state # "unconstructed" /\ InvalidOption) =>
        /\ state = "failed"
        /\ config_cmds = << >>
        /\ msg_handlers = {}
        /\ config_objects = 0
        /\ readings = << >>
        /\ errors = << >>

\* an spi_mode of 4: the constructor took an oid and raised
C5_Witness ==
    /\ state = "failed"
    /\ config.spi_mode = 4
    /\ next_oid = 1
    /\ config_cmds = << >>

\* C6, as claimed: MAX31856 decodes 0x00080000 to -0.0078125.
C6_Original ==
    (fn_pc = "responded" /\ fn_chip = "MAX31856" /\ fn_adc = 524288 /\ fn_fault = 0) =>
        /\ fn_result.error = NoError
        /\ fn_result.temp = -MAX31856_MULT

\* C6, amended: MAX31856 decodes 0x00800000, the code whose shifted value is
\* 0x40000, to -0.0078125 (and 0x00080000 to 128.0).
C6_SignBitDecodesToMinusOneLsb ==
    (fn_pc = "responded" /\ fn_chip = "MAX31856" /\ fn_fault = 0) =>
        /\ fn_adc = 8388608 =>
               fn_result.error = NoError /\ fn_result.temp = -MAX31856_MULT
        /\ fn_adc = 524288 =>
               fn_result.error = NoError /\ fn_result.temp = Deg(128)

C6_Witness ==
    /\ fn_pc = "responded"
    /\ fn_chip = "MAX31856"
    /\ fn_adc = 8388608
    /\ fn_fault = 0
    /\ fn_result.delivered
    /\ fn_result.temp = -MAX31856_MULT

\* C7: the min_value and max_value of every query_thermocouple command are
\* unsigned.
C7_BoundsUnsigned ==
    \A i \in 1 .. Len(QueryCmds) :
        /\ QueryCmds[i].args.min_value >= 0
        /\ QueryCmds[i].args.max_value >= 0

IsPrefix(q, r) == Len(q) <= Len(r) /\ SubSeq(r, 1, Len(q)) = q

ConfigOrder(q) ==
    \/ q = << >>
    \/ /\ Len(q) >= 3
       /\ q[1].cmd = "config_spi" /\ ~q[1].is_init
       /\ q[2].cmd = "spi_send" /\ q[2].is_init
       /\ q[3].cmd = "config_thermocouple" /\ ~q[3].is_init
       /\ \A i \in 4 .. Len(q) : q[i].cmd = "query_thermocouple" /\ ~q[i].is_init

\* C8: the queue holds config_spi, then spi_send (the one init command), then
\* config_thermocouple, each once, then only query_thermocouple commands; it
\* only grows at its end.
C8_ConfigOrder ==
    [][ConfigOrder(config_cmds') /\ IsPrefix(config_cmds, config_cmds')]_vars

C8_Witness ==
    /\ Len(config_cmds) = 4
    /\ config_cmds[3].cmd = "config_thermocouple"
    /\ config_cmds[4].cmd = "query_thermocouple"

RoundHalfAway(temp, mult) ==
    IF temp >= 0 THEN (2 * temp + mult) \div (2 * mult)
    ELSE -((2 * (-temp) + mult) \div (2 * mult))

\* C10: the code calc_adc shifts left is T over the multiplier rounded to the
\* nearest integer, halves away from zero, for negative as for non-negative T.
C10_RoundsHalfAwayFromZero ==
    fn_pc \in {"encoded", "decoded"} =>
        fn_adc = ShiftLeft(RoundHalfAway(fn_temp, MULT(fn_chip)), SCALE(fn_chip))

====
